---- MODULE Spec2Model ----
(***************************************************************************)
(* Model of dotenv::Parser (src/src/Parser.cpp): the symbol-resolution     *)
(* engine of cpp-dotenv.  A parse call runs parse_dotenv, parse_line,      *)
(* resolve_vars (with report_unresolved_vars / resolve_unresolved_vars on  *)
(* a stall), expand_escape, register_env and errors::flush.                *)
(*                                                                         *)
(* A value is a sequence of lexemes: a plain character ("h", "x", "o"),    *)
(* a backslash, the decoded newline "NL", or a variable reference lexeme   *)
(* ("$A" stands for the text ${A}).                                        *)
(***************************************************************************)
EXTENDS Integers, Sequences, FiniteSets, TLC

VARIABLES
    pc,                \* position of the caller / of the running parse call
    source,            \* the definitions of the stream handed to parse
    overwrite,         \* argument of parse
    interpolate,       \* argument of parse
    order,             \* iteration order of the tables during this call
    symbols_table,     \* Parser::symbols_table : key -> SymbolRecord
    references_table,  \* Parser::references_table : key -> ReferenceRecord
    unresolved,        \* Parser::unresolved
    old_unresolved,    \* local of resolve_vars
    errors,            \* the diagnostics sink (errors::)
    emitted,           \* what errors::flush handed to the caller in this call
    env,               \* the process environment
    env_before,        \* history: the environment when the call started
    calls,             \* history: number of parse calls started
    sweeps,            \* history: resolver sweeps of this call
    breaks,            \* history: Cycle Breaker passes of this call
    flushes            \* history: errors::flush calls of this call

vars == <<pc, source, overwrite, interpolate, order, symbols_table,
          references_table, unresolved, old_unresolved, errors, emitted,
          env, env_before, calls, sweeps, breaks, flushes>>

----------------------------------------------------------------------------
(* Bounds of the model *)

\* parse calls made on one Parser object under SpecReuse
MaxCalls == 2

\* size_t is modelled SizeBits wide (the counter never exceeds the number of keys)
SizeBits == 16

Keys == {"A", "B", "C"}

RefLexeme == [k \in Keys |-> "$" \o k]

RefLexemes == {RefLexeme[k] : k \in Keys}

IsRef(t) == t \in RefLexemes

RefKey(t) == CHOOSE k \in Keys : RefLexeme[k] = t

\* every total order of the keys
Orders == {o \in [1..Cardinality(Keys) -> Keys] : \A i, j \in 1..Cardinality(Keys) : o[i] = o[j] => i = j}

\* raw values a source may give to a key
RawValues ==
    {<<"h">>, <<"\\", "n">>, <<"\\", "\\", "n">>, <<"$B", "$C">>}
        \cup {<<r>> : r \in RefLexemes}
        \cup {<<"x", r>> : r \in {"$A", "$B"}}

\* sources: at most one definition per key
Sources == UNION {[D -> RawValues] : D \in SUBSET Keys}

\* the smaller sources used when one Parser is reused
ReuseValues == {<<"h">>, <<"$A">>, <<"$B">>}

ReuseSources == UNION {[D -> ReuseValues] : D \in SUBSET {"A", "B"}}

\* environments the process may start with
Env0 == {[k \in D |-> v] : D \in {{}, {"C"}}, v \in {<<"o">>, <<"\\", "n">>, <<"$A">>}}

----------------------------------------------------------------------------
(* SymbolRecord, ReferenceRecord and the tables *)

NoTable == [k \in {} |-> 0]

SymbolRecord(v, l) == [value |-> v, local |-> l, deps |-> 0]

\* SymbolRecord::complete(): no pending reference
complete(r) == r.deps = 0

\* a key whose record exists and is complete
Resolved(tab, k) == k \in DOMAIN tab /\ complete(tab[k])

Put(tab, k, r) == [x \in DOMAIN tab \cup {k} |-> IF x = k THEN r ELSE tab[x]]

\* the unsigned decrement of a size_t
Dec(u) == (u + 2 ^ SizeBits - 1) % 2 ^ SizeBits

\* the keys of a table in iteration order
RECURSIVE InOrder(_, _)
InOrder(o, D) ==
    IF o = <<>> THEN <<>>
    ELSE IF Head(o) \in D THEN <<Head(o)>> \o InOrder(Tail(o), D)
    ELSE InOrder(Tail(o), D)

----------------------------------------------------------------------------
(* SymbolsListener: the definition scan *)

\* define(key, value, locality, overwritePolicy)
Define(tab, k, v, ow) ==
    IF k \in DOMAIN tab /\ ~ow THEN tab ELSE Put(tab, k, SymbolRecord(v, TRUE))

RECURSIVE DefineAll(_, _, _, _)
DefineAll(tab, src, ks, ow) ==
    IF ks = <<>> THEN tab
    ELSE DefineAll(Define(tab, Head(ks), src[Head(ks)], ow), src, Tail(ks), ow)

----------------------------------------------------------------------------
(* ReferencesListener: the dependency scan of one value *)

\* s = [sym, refs, errs, out, deps]; rest is the unread part of the value of key,
\* pos the column of its first lexeme
RECURSIVE ReferencesWalk(_, _, _, _)
ReferencesWalk(key, rest, pos, s) ==
    IF rest = <<>> THEN s
    ELSE
        LET t == Head(rest)
            k == RefKey(t)
            known == k \in DOMAIN s.sym
            sym1 == IF known THEN s.sym ELSE Put(s.sym, k, SymbolRecord(env[k], FALSE))
            refs1 == IF k \in DOMAIN s.refs THEN s.refs
                     ELSE Put(s.refs, k, [line |-> key, pos |-> pos])
        IN  IF ~IsRef(t)
            THEN ReferencesWalk(key, Tail(rest), pos + 1, [s EXCEPT !.out = Append(@, t)])
            ELSE IF known \/ k \in DOMAIN env
            THEN ReferencesWalk(key, Tail(rest), pos + 1,
                    [s EXCEPT !.sym = sym1, !.refs = refs1,
                              !.out = Append(@, t), !.deps = @ + 1])
            ELSE ReferencesWalk(key, Tail(rest), pos + 1,
                    [s EXCEPT !.errs = Append(@, <<"UndefinedVariableError", k>>)])

\* the listener run on the record of key: the record gets its pending count
ReferencesListener(key, sym, refs, errs) ==
    LET s == ReferencesWalk(key, sym[key].value, 1,
                 [sym |-> sym, refs |-> refs, errs |-> errs, out |-> <<>>, deps |-> 0])
    IN  [sym |-> [s.sym EXCEPT ![key].value = s.out, ![key].deps = s.deps],
         refs |-> s.refs, errs |-> s.errs]

----------------------------------------------------------------------------
(* ResolverListener and UnresolvedListener: the substitution primitive *)

\* strict rule: a reference to an incomplete target is left untouched
RECURSIVE ResolverWalk(_, _)
ResolverWalk(sym, rest) ==
    IF rest = <<>> THEN [out |-> <<>>, left |-> 0]
    ELSE
        LET t == Head(rest)
            r == ResolverWalk(sym, Tail(rest))
        IN  IF IsRef(t) /\ Resolved(sym, RefKey(t))
            THEN [r EXCEPT !.out = sym[RefKey(t)].value \o @]
            ELSE IF IsRef(t)
            THEN [out |-> <<t>> \o r.out, left |-> r.left + 1]
            ELSE [r EXCEPT !.out = <<t>> \o @]

ResolverListener(key, sym) ==
    LET r == ResolverWalk(sym, sym[key].value)
    IN  [sym EXCEPT ![key].value = r.out, ![key].deps = r.left]

\* relaxed rule: a reference to an incomplete target becomes the empty string
RECURSIVE UnresolvedWalk(_, _)
UnresolvedWalk(sym, rest) ==
    IF rest = <<>> THEN <<>>
    ELSE
        LET t == Head(rest)
        IN  IF IsRef(t) /\ Resolved(sym, RefKey(t))
            THEN sym[RefKey(t)].value \o UnresolvedWalk(sym, Tail(rest))
            ELSE IF IsRef(t)
            THEN UnresolvedWalk(sym, Tail(rest))
            ELSE <<t>> \o UnresolvedWalk(sym, Tail(rest))

UnresolvedListener(key, sym) ==
    [sym EXCEPT ![key].value = UnresolvedWalk(sym, sym[key].value), ![key].deps = 0]

----------------------------------------------------------------------------
(* ExpanderListener: escape decoding *)

EscChars == {"n", "\\"}

Decode(c) == IF c = "n" THEN "NL" ELSE c

RECURSIVE ExpandWalk(_)
ExpandWalk(rest) ==
    IF rest = <<>> THEN <<>>
    ELSE IF Head(rest) = "\\" /\ Len(rest) >= 2 /\ rest[2] \in EscChars
    THEN <<Decode(rest[2])>> \o ExpandWalk(Tail(Tail(rest)))
    ELSE <<Head(rest)>> \o ExpandWalk(Tail(rest))

ExpanderListener(key, sym) == [sym EXCEPT ![key].value = ExpandWalk(@)]

----------------------------------------------------------------------------
(* environ.h *)

\* setenv(key, value, overwrite)
setenv(e, k, v, ow) == IF k \in DOMAIN e /\ ~ow THEN e ELSE Put(e, k, v)

----------------------------------------------------------------------------
(* The passes of Parser over the symbols table *)

IsLocal(sym, k) == k \in DOMAIN sym /\ sym[k].local

\* parse_line that counts every local symbol as unresolved
RECURSIVE parse_line_CountsAll(_, _)
parse_line_CountsAll(ks, s) ==
    IF ks = <<>> THEN s
    ELSE
        LET key == Head(ks)
            w == ReferencesListener(key, s.sym, s.refs, s.errs)
        IN  IF IsLocal(s.sym, key)
            THEN parse_line_CountsAll(Tail(ks),
                    [sym |-> w.sym, refs |-> w.refs, errs |-> w.errs,
                     unresolved |-> s.unresolved + 1])
            ELSE parse_line_CountsAll(Tail(ks), s)

\* parse_line: s = [sym, refs, errs, unresolved]
RECURSIVE parse_line(_, _)
parse_line(ks, s) ==
    IF ks = <<>> THEN s
    ELSE
        LET key == Head(ks)
            w == ReferencesListener(key, s.sym, s.refs, s.errs)
        IN  IF IsLocal(s.sym, key)
            THEN parse_line(Tail(ks),
                    [sym |-> w.sym, refs |-> w.refs, errs |-> w.errs,
                     unresolved |-> IF ~complete(w.sym[key]) THEN s.unresolved + 1
                                    ELSE s.unresolved])
            ELSE parse_line(Tail(ks), s)

\* resolve_sweep with the decrement outside the test of record.complete()
RECURSIVE resolve_sweep_DecAlways(_, _)
resolve_sweep_DecAlways(ks, s) ==
    IF ks = <<>> THEN s
    ELSE
        LET key == Head(ks)
            sym1 == ResolverListener(key, s.sym)
            u1 == Dec(s.unresolved)
        IN  IF IsLocal(s.sym, key) /\ ~complete(s.sym[key])
            THEN IF u1 = 0 THEN [sym |-> sym1, unresolved |-> u1]
                 ELSE resolve_sweep_DecAlways(Tail(ks), [sym |-> sym1, unresolved |-> u1])
            ELSE resolve_sweep_DecAlways(Tail(ks), s)

\* resolve_sweep that walks with the listener of resolve_unresolved_vars
RECURSIVE resolve_sweep_Relaxed(_, _)
resolve_sweep_Relaxed(ks, s) ==
    IF ks = <<>> THEN s
    ELSE
        LET key == Head(ks)
            sym1 == UnresolvedListener(key, s.sym)
            u1 == IF complete(sym1[key]) THEN Dec(s.unresolved) ELSE s.unresolved
        IN  IF IsLocal(s.sym, key) /\ ~complete(s.sym[key])
            THEN IF u1 = 0 THEN [sym |-> sym1, unresolved |-> u1]
                 ELSE resolve_sweep_Relaxed(Tail(ks), [sym |-> sym1, unresolved |-> u1])
            ELSE resolve_sweep_Relaxed(Tail(ks), s)

\* the for loop of resolve_vars (one sweep): s = [sym, unresolved]
RECURSIVE resolve_sweep(_, _)
resolve_sweep(ks, s) ==
    IF ks = <<>> THEN s
    ELSE
        LET key == Head(ks)
            sym1 == ResolverListener(key, s.sym)
            u1 == IF complete(sym1[key]) THEN Dec(s.unresolved) ELSE s.unresolved
        IN  IF IsLocal(s.sym, key) /\ ~complete(s.sym[key])
            THEN IF u1 = 0 THEN [sym |-> sym1, unresolved |-> u1]
                 ELSE resolve_sweep(Tail(ks), [sym |-> sym1, unresolved |-> u1])
            ELSE resolve_sweep(Tail(ks), s)

\* report_unresolved_vars without the test of symbol_record.complete()
RECURSIVE report_unresolved_vars_All(_, _, _)
report_unresolved_vars_All(ks, sym, s) ==
    IF ks = <<>> THEN s
    ELSE
        LET ref_key == Head(ks)
        IN  IF ref_key \notin DOMAIN sym THEN [s EXCEPT !.threw = TRUE]
            ELSE report_unresolved_vars_All(Tail(ks), sym,
                    [s EXCEPT !.errs = Append(@, <<"CircularReferenceError", ref_key>>)])

\* report_unresolved_vars: s = [errs, threw]; symbols_table.at(ref_key) throws
\* std::out_of_range for a referenced key that has no record
RECURSIVE report_unresolved_vars(_, _, _)
report_unresolved_vars(ks, sym, s) ==
    IF ks = <<>> THEN s
    ELSE
        LET ref_key == Head(ks)
        IN  IF ref_key \notin DOMAIN sym THEN [s EXCEPT !.threw = TRUE]
            ELSE IF ~complete(sym[ref_key])
            THEN report_unresolved_vars(Tail(ks), sym,
                    [s EXCEPT !.errs = Append(@, <<"CircularReferenceError", ref_key>>)])
            ELSE report_unresolved_vars(Tail(ks), sym, s)

\* resolve_unresolved_vars without the test of record.complete()
RECURSIVE resolve_unresolved_vars_All(_, _)
resolve_unresolved_vars_All(ks, s) ==
    IF ks = <<>> THEN s
    ELSE
        LET key == Head(ks)
            sym1 == UnresolvedListener(key, s.sym)
            u1 == IF complete(sym1[key]) THEN Dec(s.unresolved) ELSE s.unresolved
        IN  IF IsLocal(s.sym, key)
            THEN resolve_unresolved_vars_All(Tail(ks), [sym |-> sym1, unresolved |-> u1])
            ELSE resolve_unresolved_vars_All(Tail(ks), s)

\* resolve_unresolved_vars that never notes a completed symbol
RECURSIVE resolve_unresolved_vars_NoDec(_, _)
resolve_unresolved_vars_NoDec(ks, s) ==
    IF ks = <<>> THEN s
    ELSE
        LET key == Head(ks)
            sym1 == UnresolvedListener(key, s.sym)
        IN  IF IsLocal(s.sym, key) /\ ~complete(s.sym[key])
            THEN resolve_unresolved_vars_NoDec(Tail(ks),
                    [sym |-> sym1, unresolved |-> s.unresolved])
            ELSE resolve_unresolved_vars_NoDec(Tail(ks), s)

\* resolve_unresolved_vars: s = [sym, unresolved]
RECURSIVE resolve_unresolved_vars(_, _)
resolve_unresolved_vars(ks, s) ==
    IF ks = <<>> THEN s
    ELSE
        LET key == Head(ks)
            sym1 == UnresolvedListener(key, s.sym)
            u1 == IF complete(sym1[key]) THEN Dec(s.unresolved) ELSE s.unresolved
        IN  IF IsLocal(s.sym, key) /\ ~complete(s.sym[key])
            THEN resolve_unresolved_vars(Tail(ks), [sym |-> sym1, unresolved |-> u1])
            ELSE resolve_unresolved_vars(Tail(ks), s)

\* expand_escape that skips the local symbols
expand_escape_None(ks, sym) == sym

\* expand_escape without the test of record.local()
RECURSIVE expand_escape_All(_, _)
expand_escape_All(ks, sym) ==
    IF ks = <<>> THEN sym
    ELSE expand_escape_All(Tail(ks), ExpanderListener(Head(ks), sym))

RECURSIVE expand_escape(_, _)
expand_escape(ks, sym) ==
    IF ks = <<>> THEN sym
    ELSE IF IsLocal(sym, Head(ks))
    THEN expand_escape(Tail(ks), ExpanderListener(Head(ks), sym))
    ELSE expand_escape(Tail(ks), sym)

\* register_env that always overwrites
RECURSIVE register_env_Force(_, _, _, _)
register_env_Force(ks, sym, e, ow) ==
    IF ks = <<>> THEN e
    ELSE IF IsLocal(sym, Head(ks))
    THEN register_env_Force(Tail(ks), sym, setenv(e, Head(ks), sym[Head(ks)].value, TRUE), ow)
    ELSE register_env_Force(Tail(ks), sym, e, ow)

RECURSIVE register_env(_, _, _, _)
register_env(ks, sym, e, ow) ==
    IF ks = <<>> THEN e
    ELSE IF IsLocal(sym, Head(ks))
    THEN register_env(Tail(ks), sym, setenv(e, Head(ks), sym[Head(ks)].value, ow), ow)
    ELSE register_env(Tail(ks), sym, e, ow)

----------------------------------------------------------------------------
(* The state machine *)

Init ==
    /\ pc = "idle"
    /\ source = NoTable
    /\ overwrite = FALSE
    /\ interpolate = FALSE
    /\ order = CHOOSE o \in Orders : TRUE
    /\ symbols_table = NoTable
    /\ references_table = NoTable
    /\ unresolved = 0
    /\ old_unresolved = 0
    /\ errors = <<>>
    /\ emitted = <<>>
    /\ env \in Env0
    /\ env_before = env
    /\ calls = 0
    /\ sweeps = 0
    /\ breaks = 0
    /\ flushes = 0

\* parse(is, overwrite, interpolate) is entered: lines 37-39
Enter(srcs, limit) ==
    /\ pc \in {"idle", "returned", "threw"}
    /\ calls < limit
    /\ \E src \in srcs, ow \in BOOLEAN, ip \in BOOLEAN :
          /\ source' = src
          /\ overwrite' = ow
          /\ interpolate' = ip
    /\ order' \in Orders
    /\ unresolved' = 0
    /\ symbols_table' = NoTable
    /\ errors' = <<>>
    /\ pc' = "parse_dotenv"
    /\ calls' = calls + 1
    /\ env_before' = env
    /\ emitted' = <<>>
    /\ sweeps' = 0
    /\ breaks' = 0
    /\ flushes' = 0
    /\ UNCHANGED <<references_table, old_unresolved, env>>

\* the first parse call on a fresh Parser
Parse == Enter(Sources, 1)

\* parse calls on a Parser that is reused
ParseReused == Enter(ReuseSources, MaxCalls)

\* parse that runs the dependency scan whatever interpolate is
ParseDotenv_AlwaysScan ==
    /\ pc = "parse_dotenv"
    /\ symbols_table' =
          DefineAll(symbols_table, source, InOrder(order, DOMAIN source), overwrite)
    /\ pc' = "parse_line"
    /\ UNCHANGED <<source, overwrite, interpolate, order, references_table, unresolved,
                   old_unresolved, errors, emitted, env, env_before, calls, sweeps,
                   breaks, flushes>>

ParseDotenv ==
    /\ pc = "parse_dotenv"
    /\ symbols_table' =
          DefineAll(symbols_table, source, InOrder(order, DOMAIN source), overwrite)
    /\ pc' = IF interpolate THEN "parse_line" ELSE "expand_escape"
    /\ UNCHANGED <<source, overwrite, interpolate, order, references_table, unresolved,
                   old_unresolved, errors, emitted, env, env_before, calls, sweeps,
                   breaks, flushes>>

ParseLine ==
    /\ pc = "parse_line"
    /\ LET s == parse_line(InOrder(order, DOMAIN symbols_table),
                    [sym |-> symbols_table, refs |-> references_table,
                     errs |-> errors, unresolved |-> unresolved])
       IN  /\ symbols_table' = s.sym
           /\ references_table' = s.refs
           /\ errors' = s.errs
           /\ unresolved' = s.unresolved
           /\ pc' = IF s.unresolved > 0 THEN "resolve_vars" ELSE "expand_escape"
    /\ UNCHANGED <<source, overwrite, interpolate, order, old_unresolved, emitted, env,
                   env_before, calls, sweeps, breaks, flushes>>

\* one iteration of the while loop of resolve_vars up to the stall test
ResolveSweep ==
    /\ pc = "resolve_vars"
    /\ unresolved > 0
    /\ old_unresolved' = unresolved
    /\ LET s == resolve_sweep(InOrder(order, DOMAIN symbols_table),
                    [sym |-> symbols_table, unresolved |-> unresolved])
       IN  /\ symbols_table' = s.sym
           /\ unresolved' = s.unresolved
           /\ pc' = IF s.unresolved = unresolved THEN "stalled"
                    ELSE IF s.unresolved > 0 THEN "resolve_vars"
                    ELSE "expand_escape"
    /\ sweeps' = sweeps + 1
    /\ UNCHANGED <<source, overwrite, interpolate, order, references_table, errors,
                   emitted, env, env_before, calls, breaks, flushes>>

\* the stall branch of resolve_vars: report_unresolved_vars, resolve_unresolved_vars
CycleBreak ==
    /\ pc = "stalled"
    /\ LET r == report_unresolved_vars(InOrder(order, DOMAIN references_table),
                    symbols_table, [errs |-> errors, threw |-> FALSE])
           s == resolve_unresolved_vars(InOrder(order, DOMAIN symbols_table),
                    [sym |-> symbols_table, unresolved |-> unresolved])
       IN  /\ errors' = r.errs
           /\ symbols_table' = IF r.threw THEN symbols_table ELSE s.sym
           /\ unresolved' = IF r.threw THEN unresolved ELSE s.unresolved
           /\ pc' = IF r.threw THEN "threw"
                    ELSE IF s.unresolved > 0 THEN "resolve_vars"
                    ELSE "expand_escape"
    /\ breaks' = breaks + 1
    /\ UNCHANGED <<source, overwrite, interpolate, order, references_table,
                   old_unresolved, emitted, env, env_before, calls, sweeps, flushes>>

ExpandEscape ==
    /\ pc = "expand_escape"
    /\ symbols_table' = expand_escape(InOrder(order, DOMAIN symbols_table), symbols_table)
    /\ pc' = "register_env"
    /\ UNCHANGED <<source, overwrite, interpolate, order, references_table, unresolved,
                   old_unresolved, errors, emitted, env, env_before, calls, sweeps,
                   breaks, flushes>>

RegisterEnv ==
    /\ pc = "register_env"
    /\ env' = register_env(InOrder(order, DOMAIN symbols_table), symbols_table, env,
                           overwrite)
    /\ pc' = "flush"
    /\ UNCHANGED <<source, overwrite, interpolate, order, symbols_table,
                   references_table, unresolved, old_unresolved, errors, emitted,
                   env_before, calls, sweeps, breaks, flushes>>

\* errors::flush(), then parse returns
Flush ==
    /\ pc = "flush"
    /\ emitted' = errors
    /\ errors' = <<>>
    /\ flushes' = flushes + 1
    /\ pc' = "returned"
    /\ UNCHANGED <<source, overwrite, interpolate, order, symbols_table,
                   references_table, unresolved, old_unresolved, env, env_before, calls,
                   sweeps, breaks>>

Steps ==
    \/ ParseDotenv
    \/ ParseLine
    \/ ResolveSweep
    \/ CycleBreak
    \/ ExpandEscape
    \/ RegisterEnv
    \/ Flush

Next == Parse \/ Steps

Spec == Init /\ [][Next]_vars

NextReuse == ParseReused \/ Steps

SpecReuse == Init /\ [][NextReuse]_vars

----------------------------------------------------------------------------
(* Escape expansion as a function of the value: expand_escape is run on a  *)
(* table that holds one Local record, and then run on it again.            *)

\* longest value the expansion is applied to
MaxValueLen == 4

EscAlphabet == {"\\", "n", "h"}

EscValues == UNION {[1..n -> EscAlphabet] : n \in 0..MaxValueLen}

InitExpand ==
    /\ pc = "expand_escape"
    /\ source \in {[k \in {"A"} |-> v] : v \in EscValues}
    /\ overwrite = FALSE
    /\ interpolate = FALSE
    /\ order = CHOOSE o \in Orders : TRUE
    /\ symbols_table = [k \in {"A"} |-> SymbolRecord(source[k], TRUE)]
    /\ references_table = NoTable
    /\ unresolved = 0
    /\ old_unresolved = 0
    /\ errors = <<>>
    /\ emitted = <<>>
    /\ env = NoTable
    /\ env_before = env
    /\ calls = 1
    /\ sweeps = 0
    /\ breaks = 0
    /\ flushes = 0

\* expand_escape run on values it has already expanded
ExpandAgain ==
    /\ pc = "register_env"
    /\ symbols_table' = expand_escape(InOrder(order, DOMAIN symbols_table), symbols_table)
    /\ pc' = "expanded_twice"
    /\ UNCHANGED <<source, overwrite, interpolate, order, references_table, unresolved,
                   old_unresolved, errors, emitted, env, env_before, calls, sweeps,
                   breaks, flushes>>

NextExpand == ExpandEscape \/ ExpandAgain

SpecExpand == InitExpand /\ [][NextExpand]_vars

----------------------------------------------------------------------------
(* Vocabulary of the properties *)

\* the call has left resolve_vars normally
AfterResolver == pc \in {"expand_escape", "register_env", "flush", "returned"}

\* the values handed to the Environment Publisher are final
Published == pc \in {"register_env", "flush", "returned"}

\* the keys a value references
RefsIn(v) == {RefKey(v[i]) : i \in {j \in 1..Len(v) : IsRef(v[j])}}

\* the keys defined by the source that the definition of a references
Succ(a) == {b \in DOMAIN source : b \in RefsIn(source[a])}

RECURSIVE Closure(_, _)
Closure(S, n) ==
    IF n = 0 THEN S ELSE Closure(S \cup UNION {Succ(b) : b \in S}, n - 1)

\* the keys a depends on, directly or through a chain
Desc(a) == Closure(Succ(a), Cardinality(Keys))

OnCycle(a) == a \in Desc(a)

Acyclic == \A a \in DOMAIN source : ~OnCycle(a)

\* every reference of the value names a key the source defines
RefsDefined(v) == RefsIn(v) \subseteq DOMAIN source

\* number of diagnostics of a kind about a key in a sequence of diagnostics
Count(ds, kind, k) == Cardinality({i \in 1..Len(ds) : ds[i] = <<kind, k>>})

\* number of occurrences of a reference to k in a value
Occurrences(v, k) == Cardinality({i \in 1..Len(v) : v[i] = RefLexeme[k]})

\* a value with every reference replaced by the current value of the referenced record
RECURSIVE Replaced(_)
Replaced(v) ==
    IF v = <<>> THEN <<>>
    ELSE IF IsRef(Head(v)) THEN symbols_table[RefKey(Head(v))].value \o Replaced(Tail(v))
    ELSE <<Head(v)>> \o Replaced(Tail(v))

\* the keys that are neither defined by the source nor present in the environment
Missing == Keys \ (DOMAIN source \cup DOMAIN env_before)

RECURSIVE TotalOccurrences(_, _)
TotalOccurrences(D, k) ==
    IF D = {} THEN 0
    ELSE LET a == CHOOSE x \in D : TRUE
         IN  Occurrences(source[a], k) + TotalOccurrences(D \ {a}, k)

\* the references of a value that the dependency scan counts as pending
Pending(v) == Cardinality({i \in 1..Len(v) : IsRef(v[i]) /\ RefKey(v[i]) \notin Missing})

\* the state right after the dependency scan
Scanned == interpolate /\ pc \in {"resolve_vars", "expand_escape"} /\ sweeps = 0 /\ breaks = 0

NoRefs == \A a \in DOMAIN source : RefsIn(source[a]) = {}

\* the source is one cycle of definitions K1=${K2}, ..., KN=${K1} and nothing else
PureCycle ==
    /\ DOMAIN source # {}
    /\ \A a \in DOMAIN source :
          /\ Len(source[a]) = 1
          /\ IsRef(source[a][1])
          /\ Desc(a) = DOMAIN source

----------------------------------------------------------------------------
(* C1: every parse call terminates, also on circular and self references:  *)
(* the while loop of resolve_vars is left with unresolved = 0 (never by an *)
(* exception) after finitely many sweeps.                                  *)
C1_ResolverReachesZero ==
    /\ pc # "threw"
    /\ AfterResolver => unresolved = 0
    /\ sweeps + breaks <= Cardinality(DOMAIN source) + 1

(* C2: with interpolate, a key whose references lead only to keys the      *)
(* source defines, through no cycle, ends with every reference replaced by *)
(* the final value of the referenced key; A=${B}, B=hello gives hello for  *)
(* both; a source without cycle and without unknown key gives no           *)
(* diagnostic.                                                             *)
C2_AcyclicResolved ==
    (pc = "returned" /\ interpolate) =>
        /\ \A a \in DOMAIN source :
              (/\ ~OnCycle(a)
               /\ \A b \in Desc(a) \cup {a} : ~OnCycle(b) /\ RefsDefined(source[b]))
              => symbols_table[a].value = Replaced(ExpandWalk(source[a]))
        /\ (DOMAIN source = {"A", "B"} /\ source["A"] = <<"$B">> /\ source["B"] = <<"h">>)
              => /\ symbols_table["A"].value = <<"h">>
                 /\ symbols_table["B"].value = <<"h">>
        /\ (Acyclic /\ \A a \in DOMAIN source : RefsDefined(source[a]))
              => emitted = <<>>

C2_Witness ==
    /\ pc = "returned" /\ interpolate /\ sweeps = 2
    /\ DOMAIN source = Keys
    /\ source["A"] = <<"x", "$B">> /\ source["B"] = <<"$C">> /\ source["C"] = <<"h">>
    /\ symbols_table["A"].value = <<"x", "h">>
    /\ emitted = <<>>

(* C3: a source that is one pure cycle of N keys gives exactly N           *)
(* CircularReferenceError diagnostics, one per key, every key is published *)
(* as the empty string, and the parse completes through registration.      *)
C3_PureCycle ==
    (interpolate /\ PureCycle /\ pc \in {"returned", "threw"}) =>
        /\ pc = "returned"
        /\ Len(emitted) = Cardinality(DOMAIN source)
        /\ \A a \in DOMAIN source :
              /\ Count(emitted, "CircularReferenceError", a) = 1
              /\ symbols_table[a].value = <<>>
              /\ a \in DOMAIN env

(* C4: a reference to a key that is neither defined by the source nor in   *)
(* the environment gives one UndefinedVariableError per occurrence, is not *)
(* counted as a pending reference of its record, and A=${MISSING} is       *)
(* published as the empty string.                                          *)
C4_UndefinedReference ==
    /\ Scanned =>
          /\ \A a \in DOMAIN source : symbols_table[a].deps = Pending(source[a])
          /\ unresolved = Cardinality({a \in DOMAIN source : Pending(source[a]) > 0})
          /\ \A m \in Missing :
                Count(errors, "UndefinedVariableError", m) = TotalOccurrences(DOMAIN source, m)
    /\ (interpolate /\ pc = "returned") =>
          \A m \in Missing :
              /\ Count(emitted, "UndefinedVariableError", m) = TotalOccurrences(DOMAIN source, m)
              /\ \A a \in DOMAIN source :
                    source[a] = <<RefLexeme[m]>> => symbols_table[a].value = <<>>

C4_Witness ==
    /\ pc = "returned" /\ interpolate
    /\ DOMAIN source = {"A"} /\ source["A"] = <<"$B">>
    /\ "B" \in Missing
    /\ emitted = <<<<"UndefinedVariableError", "B">>>>
    /\ env["A"] = <<>>

(* C5: a variable that exists in the environment before parse keeps its    *)
(* value when overwrite is false, even if the source redefines it, and     *)
(* has the final value of the source's record after a parse with           *)
(* overwrite true.                                                         *)
C5_Overwrite ==
    \A k \in DOMAIN env_before :
        /\ k \in DOMAIN env
        /\ ~overwrite => env[k] = env_before[k]
        /\ (overwrite /\ pc = "returned" /\ k \in DOMAIN source) =>
              /\ env[k] = symbols_table[k].value
              /\ source[k] = <<"h">> => env[k] = <<"h">>

C5_Witness ==
    /\ pc = "returned" /\ ~overwrite
    /\ \E k \in DOMAIN env_before \cap DOMAIN source :
          /\ symbols_table[k].value # env_before[k]
          /\ env[k] = env_before[k]

(* C6: when no value references a key, the unresolved count after the      *)
(* dependency scan is 0, resolve_vars makes no sweep and breaks no cycle,  *)
(* and each published value is the raw value after escape expansion.       *)
C6_NoReferences ==
    NoRefs =>
        /\ unresolved = 0 /\ sweeps = 0 /\ breaks = 0
        /\ pc \notin {"resolve_vars", "stalled", "threw"}
        /\ errors = <<>> /\ emitted = <<>>
        /\ Published =>
              \A a \in DOMAIN source : symbols_table[a].value = ExpandWalk(source[a])

C6_Witness ==
    /\ pc = "returned" /\ interpolate /\ NoRefs
    /\ \E a \in DOMAIN source :
          source[a] = <<"\\", "n">> /\ symbols_table[a].value = <<"NL">>

(* C7: with an acyclic reference graph every resolver sweep decreases the  *)
(* unresolved counter by at least 1, resolution takes at most N sweeps     *)
(* (N the number of Local records) and the Cycle Breaker never runs.       *)
C7_AcyclicSweeps ==
    (interpolate /\ Acyclic) =>
        /\ pc \notin {"stalled", "threw"}
        /\ breaks = 0
        /\ sweeps <= Cardinality(DOMAIN source)
        /\ sweeps > 0 => unresolved < old_unresolved
        /\ AfterResolver => unresolved = 0

(* C8: with interpolate false the dependency scan, the resolver and the    *)
(* Cycle Breaker do not run: no reference is substituted, no diagnostic    *)
(* is produced, and each Local value is published as its raw text after    *)
(* escape expansion.                                                       *)
C8_NoInterpolation ==
    ~interpolate =>
        /\ pc \notin {"parse_line", "resolve_vars", "stalled", "threw"}
        /\ sweeps = 0 /\ breaks = 0 /\ unresolved = 0
        /\ errors = <<>> /\ emitted = <<>>
        /\ DOMAIN symbols_table \subseteq DOMAIN source
        /\ pc = "expand_escape" => \A a \in DOMAIN source : symbols_table[a].value = source[a]
        /\ Published =>
              \A a \in DOMAIN source : symbols_table[a].value = ExpandWalk(source[a])

C8_Witness ==
    /\ pc = "returned" /\ ~interpolate
    /\ DOMAIN source = {"A", "B"}
    /\ source["A"] = <<"x", "$B">> /\ source["B"] = <<"\\", "n">>
    /\ env["A"] = <<"x", "$B">> /\ env["B"] = <<"NL">>

(* C9: when a parse call starts on a reused Parser, the Symbol Table, the  *)
(* Reference Table, the unresolved counter and the diagnostics sink are    *)
(* empty or zero.                                                          *)
C9_TablesReset ==
    pc = "parse_dotenv" =>
        /\ symbols_table = NoTable
        /\ references_table = NoTable
        /\ unresolved = 0
        /\ errors = <<>>

(* C10: an External record is read-only during a parse: no step changes    *)
(* its value, and no step sets its environment variable.                   *)
C10_ExternalReadOnly ==
    [][\A k \in Keys :
          (k \in DOMAIN symbols_table /\ ~symbols_table[k].local /\ pc' # "parse_dotenv")
          => /\ k \in DOMAIN symbols_table'
             /\ symbols_table'[k] = symbols_table[k]
             /\ k \in DOMAIN env /\ k \in DOMAIN env'
             /\ env'[k] = env[k]
             /\ symbols_table[k].value = env[k]]_vars

C10_Witness ==
    /\ pc = "returned"
    /\ \E k \in DOMAIN symbols_table :
          /\ ~symbols_table[k].local
          /\ symbols_table[k].value = <<"\\", "n">>
          /\ env[k] = <<"\\", "n">>
          /\ \E a \in DOMAIN source : symbols_table[a].value = <<"x", "NL">>

\* the value holds an escaped backslash (the escape token of a backslash)
RECURSIVE EscapedBackslash(_)
EscapedBackslash(v) ==
    IF v = <<>> THEN FALSE
    ELSE IF Head(v) = "\\" /\ Len(v) >= 2 /\ v[2] \in EscChars
    THEN v[2] = "\\" \/ EscapedBackslash(Tail(Tail(v)))
    ELSE EscapedBackslash(Tail(v))

Incomplete == {k \in DOMAIN symbols_table : symbols_table[k].local /\ ~complete(symbols_table[k])}

(* C12: after one Cycle Breaker pass (report_unresolved_vars, then         *)
(* resolve_unresolved_vars) the unresolved counter is 0 and every Local    *)
(* record is complete: the pass runs at most once in a parse and the       *)
(* resolver loop is left right after it.                                   *)
C12_OneCycleBreak ==
    /\ breaks <= 1
    /\ (breaks = 1 /\ pc # "threw") =>
          /\ unresolved = 0
          /\ Incomplete = {}
          /\ AfterResolver

C12_Witness ==
    /\ breaks = 1 /\ pc = "expand_escape" /\ sweeps = 2
    /\ DOMAIN source = Keys
    /\ symbols_table["A"].value = <<"x">>

\* the keys a CircularReferenceError was produced for in this call
Reported == {k \in Keys : Count(errors \o emitted, "CircularReferenceError", k) > 0}

(* C13: every key for which report_unresolved_vars produces a              *)
(* CircularReferenceError lies on a cycle of the reference graph.          *)
C13_ReportedOnCycle ==
    \A k \in Reported : k \in DOMAIN source /\ OnCycle(k)

\* the CircularReferenceError diagnostics about k that a step adds to the sink
NewCircular(k) ==
    Count(errors', "CircularReferenceError", k) - Count(errors, "CircularReferenceError", k)

\* the keys of the Reference Table that precede, in table order, the first one
\* that has no record in the Symbol Table
RECURSIVE WithRecord(_)
WithRecord(ks) ==
    IF ks = <<>> \/ Head(ks) \notin DOMAIN symbols_table THEN {}
    ELSE {Head(ks)} \cup WithRecord(Tail(ks))

RECURSIVE RunResolver(_, _, _)
RunResolver(o, s, fuel) ==
    IF s.unresolved = 0 \/ fuel = 0 THEN s
    ELSE
        LET t == resolve_sweep(InOrder(o, DOMAIN s.sym),
                     [sym |-> s.sym, unresolved |-> s.unresolved])
            r == report_unresolved_vars(InOrder(o, DOMAIN s.refs), t.sym,
                     [errs |-> s.errs, threw |-> FALSE])
            u == resolve_unresolved_vars(InOrder(o, DOMAIN t.sym), t)
        IN  IF t.unresolved = s.unresolved
            THEN RunResolver(o, [s EXCEPT !.sym = u.sym, !.unresolved = u.unresolved,
                                          !.errs = r.errs], fuel - 1)
            ELSE RunResolver(o, [s EXCEPT !.sym = t.sym, !.unresolved = t.unresolved],
                             fuel - 1)

\* the table and the diagnostics that the parse of the source produces up to
\* escape expansion when the tables are iterated in the order o
RunParse(o) ==
    LET t0 == DefineAll(NoTable, source, InOrder(o, DOMAIN source), overwrite)
        s0 == [sym |-> t0, refs |-> NoTable, errs |-> <<>>, unresolved |-> 0]
        s1 == IF interpolate THEN parse_line(InOrder(o, DOMAIN t0), s0) ELSE s0
        s2 == RunResolver(o, s1, Cardinality(Keys) + 2)
    IN  [sym |-> expand_escape(InOrder(o, DOMAIN s2.sym), s2.sym), errs |-> s2.errs]

DiagnosticSet(ds) == {ds[i] : i \in 1..Len(ds)}

(* C15: the published values and the set of diagnostics of a parse do not  *)
(* depend on the iteration order of the Symbol Table: every total order of *)
(* the same records gives the same final values and diagnostics.           *)
C15_OrderIndependent ==
    pc = "register_env" =>
        \A o \in Orders :
            /\ DiagnosticSet(RunParse(o).errs) = DiagnosticSet(errors)
            /\ \A k \in DOMAIN source : RunParse(o).sym[k].value = symbols_table[k].value

\* the steps of the resolver and of the Cycle Breaker
Resolving == pc \in {"resolve_vars", "stalled"}

(* C16: within one parse a Local record that is complete stays complete    *)
(* and the resolver and the Cycle Breaker do not change its value again;   *)
(* an External record is complete in every state.                          *)
C16_CompleteMonotonic ==
    [][/\ \A k \in DOMAIN symbols_table :
             (symbols_table[k].local /\ complete(symbols_table[k]) /\ Resolving)
             => /\ k \in DOMAIN symbols_table'
                /\ complete(symbols_table'[k])
                /\ symbols_table'[k].value = symbols_table[k].value
       /\ \A k \in DOMAIN symbols_table' :
             (~symbols_table'[k].local \/ pc' \in {"register_env", "flush", "returned"})
             => complete(symbols_table'[k])]_vars

C16_Witness ==
    /\ pc = "expand_escape" /\ breaks = 1 /\ sweeps = 2
    /\ DOMAIN source = {"A", "B"}
    /\ source["A"] = <<"$A">> /\ source["B"] = <<"$C">>
    /\ ~symbols_table["C"].local
    /\ symbols_table["B"].value = <<"$A">>
    /\ symbols_table["A"].value = <<>>

\* position of a key in the table order
Pos(k) == CHOOSE i \in 1..Len(order) : order[i] = k

\* the table a sweep step shows to the walk of k: the records before k in
\* table order have been walked, the others have not
Seen(k) ==
    [j \in DOMAIN symbols_table |->
        IF Pos(j) < Pos(k) THEN symbols_table'[j] ELSE symbols_table[j]]

\* the references of v whose target is not a complete record of T
Unsubstituted(T, v) ==
    {i \in 1..Len(v) : IsRef(v[i]) /\ ~(RefKey(v[i]) \in DOMAIN T /\ T[RefKey(v[i])].deps = 0)}

\* v with the references to complete records of T replaced by their value
RECURSIVE Substituted(_, _)
Substituted(T, v) ==
    IF v = <<>> THEN <<>>
    ELSE IF IsRef(Head(v)) /\ Unsubstituted(T, <<Head(v)>>) = {}
    THEN T[RefKey(Head(v))].value \o Substituted(T, Tail(v))
    ELSE <<Head(v)>> \o Substituted(T, Tail(v))

(* C17: in a resolver sweep a reference is substituted only when its       *)
(* target record is complete, a reference to an incomplete target is left  *)
(* untouched, and a record becomes complete in the sweep only if every one *)
(* of its references was substituted.                                      *)
C17_SubstituteCompleteOnly ==
    [][pc = "resolve_vars" =>
          \A k \in Incomplete :
              /\ symbols_table'[k].value = Substituted(Seen(k), symbols_table[k].value)
              /\ complete(symbols_table'[k])
                    <=> Unsubstituted(Seen(k), symbols_table[k].value) = {}
              /\ symbols_table'[k].deps
                    = Cardinality(Unsubstituted(Seen(k), symbols_table[k].value))]_vars

C17_Witness ==
    /\ pc = "stalled" /\ sweeps = 1
    /\ DOMAIN source = Keys
    /\ source["A"] = <<"$B", "$C">> /\ source["B"] = <<"h">> /\ source["C"] = <<"x", "$A">>
    /\ symbols_table["A"].value = <<"h", "$C">>
    /\ symbols_table["A"].deps = 1

\* the order of the phases of parse
PhaseOrder ==
    {<<"idle", "parse_dotenv">>, <<"returned", "parse_dotenv">>,
     <<"parse_dotenv", "parse_line">>, <<"parse_dotenv", "expand_escape">>,
     <<"parse_line", "resolve_vars">>, <<"parse_line", "expand_escape">>,
     <<"resolve_vars", "resolve_vars">>, <<"resolve_vars", "stalled">>,
     <<"resolve_vars", "expand_escape">>, <<"stalled", "expand_escape">>,
     <<"expand_escape", "register_env">>, <<"register_env", "flush">>,
     <<"flush", "returned">>}

(* C18: in every parse call the phases run in the order definition scan,   *)
(* dependency scan, resolver (Cycle Breaker only on a stall), escape       *)
(* expansion, registration, flush; the diagnostics are cleared before the  *)
(* scan and flushed exactly once, after registration; a resolution-time    *)
(* error never prevents escape expansion and registration.                 *)
C18_PhaseOrder ==
    [][/\ <<pc, pc'>> \in PhaseOrder
       /\ pc = "parse_dotenv" => (pc' = "parse_line" <=> interpolate)
       /\ pc' = "parse_dotenv" => errors' = <<>> /\ flushes' = 0
       /\ flushes' = IF pc' = "returned" THEN 1 ELSE 0
       /\ pc' = "returned" =>
             /\ emitted' = errors
             /\ \A k \in DOMAIN source : k \in DOMAIN env']_vars

(* C19: at the end of the dependency scan, at the start and the end of     *)
(* every resolver sweep and after the Cycle Breaker the unresolved counter *)
(* is the number of incomplete Local records; it never wraps below 0.      *)
C19_CounterIsIncomplete ==
    /\ unresolved = Cardinality(Incomplete)
    /\ pc \in {"resolve_vars", "stalled"} => old_unresolved <= Cardinality(Keys)

C19_Witness ==
    /\ pc = "resolve_vars" /\ sweeps = 1 /\ old_unresolved = 2
    /\ unresolved = 1
    /\ Incomplete = {"A"}
    /\ source["A"] = <<"$B", "$C">>
    /\ symbols_table["A"].value = <<"$B", "h">>

====
